---- MODULE Spec2Model ----
(***************************************************************************)
(* Event batching and delivery of the Analytics class                      *)
(* (src/src/csvAnalytics.ts, class Analytics, lines 452-736).              *)
(*                                                                         *)
(* JavaScript runs the class on one thread: every action below is one      *)
(* macrotask (a public call, a timer callback, a lifecycle listener, a     *)
(* fetch completion, a backoff timeout) together with the promise          *)
(* continuations it triggers, which run before any other macrotask.        *)
(*                                                                         *)
(* An event is identified by the ordinal of the accepted trackEvent call   *)
(* that built it.  A batch is a sequence of events.                        *)
(***************************************************************************)
EXTENDS Integers, Sequences, FiniteSets, TLC

\* ---- bounds of the model -------------------------------------------------
MaxEvents == 2
MaxBatchSize == 2
MaxMaxRetries == 1
MaxRetryCalls == 1
MaxInits == 2

\* ---- constants of the program ----------------------------------------------
\* maxRetries: config.maxRetries ?? 3
DefaultMaxRetries == 3

VARIABLES
    analyticsInstance,      \* the module variable analyticsInstance: null or set
    replaced,               \* the instances that initializeAnalytics() replaced
    config,                 \* this.config: enabled, batchSize, maxRetries, context
    sessionId,              \* this.sessionId
    eventQueue,             \* this.eventQueue
    isFlushingInProgress,   \* this.isFlushingInProgress
    failedBatches,          \* this.failedBatches
    flushTimer,             \* this.flushTimer # null
    unloadHandlers,         \* the listeners added by setupUnloadHandler exist
    flushSend,              \* the sendBatch chain that flush() awaits
    retryCalls,             \* the retryFailedBatches() calls that took batches,
                            \* each with the sendBatch chain it awaits
    taken,                  \* history: how often each event was put into a batch
    discarded,              \* history: events dropped from the queue by clear()
    duringFlight,           \* history: events enqueued while a flush() was in flight
    stamped,                \* history: the sessionId values of the events built
    nextId,                 \* ordinal of the next accepted trackEvent call
    last                    \* what the operation that ran last did

vars == <<analyticsInstance, replaced, config, sessionId, eventQueue,
          isFlushingInProgress, failedBatches, flushTimer, unloadHandlers,
          flushSend, retryCalls, taken, discarded, duringFlight, stamped,
          nextId, last>>

Range(s) == {s[i] : i \in 1..Len(s)}

Events == 1..MaxEvents

\* ---- sendBatch ----------------------------------------------------------
FetchOutcomes == {"ok", "http_error", "network_error"}

\* no sendBatch chain
NoSend ==
    [batch |-> <<>>, retryCount |-> 0, state |-> "None", attempts |-> 0, fails |-> 0,
     delay |-> 0]

\* a sendBatch that starts with its retries used up
NewSendSpent(batch) ==
    [batch |-> batch, retryCount |-> config.maxRetries, state |-> "Attempting",
     attempts |-> 1, fails |-> 0, delay |-> 0]

\* sendBatch(batch) called with the default retryCount; its fetch starts at once
NewSend(batch) ==
    [batch |-> batch, retryCount |-> 0, state |-> "Attempting", attempts |-> 1, fails |-> 0,
     delay |-> 0]

Active == {"Attempting", "RetryScheduled"}

Settled == {"Succeeded", "Exhausted", "Threw"}

\* the try block of sendBatch ends in its catch block
AttemptFailed(outcome) == outcome # "ok"

\* a retry test that allows one retry too many
ShouldRetryOneMore(retryCount) == retryCount <= config.maxRetries

\* the catch block of sendBatch: retry, or archive
ShouldRetry(retryCount) == retryCount < config.maxRetries

\* a sendBatch that lets a rejected fetch pass its catch block
EscapesNetworkError(outcome) == outcome = "network_error"

\* an outcome that leaves sendBatch as an exception: none, the try block
\* encloses the fetch and the status check, and the catch block only logs,
\* waits and recurses
Escapes(outcome) == FALSE

\* state of a sendBatch chain after its fetch ended with outcome
AfterFetch(d, outcome) ==
    IF ~AttemptFailed(outcome) THEN "Succeeded"
    ELSE IF Escapes(outcome) THEN "Threw"
    ELSE IF ShouldRetry(d.retryCount) THEN "RetryScheduled"
    ELSE "Exhausted"

\* a backoff that grows by one second per retry
BackoffDelayLinear(retryCount) == (retryCount + 1) * 1000

\* const delay = Math.pow(2, retryCount) * 1000
BackoffDelay(retryCount) == (2 ^ retryCount) * 1000

\* the chain after its fetch ended: in backoff it waits for setTimeout(delay)
Complete(d, outcome) ==
    [d EXCEPT !.state = AfterFetch(d, outcome),
              !.fails = IF AttemptFailed(outcome) THEN @ + 1 ELSE @,
              !.delay = IF AfterFetch(d, outcome) = "RetryScheduled"
                        THEN BackoffDelay(d.retryCount) ELSE 0]

\* an archive that puts the newest failed batch first
ArchiveNewestFirst(d) ==
    IF d.state = "Exhausted" THEN <<d.batch>> \o failedBatches ELSE failedBatches

\* a sendBatch that gives up without keeping the batch
ArchiveNothing(d) == failedBatches

\* an archive that takes the batch at every failed attempt
ArchiveEveryFailure(d) ==
    IF d.state \in {"Exhausted", "RetryScheduled"}
    THEN Append(failedBatches, d.batch) ELSE failedBatches

\* this.failedBatches.push(batch) of the else branch
Archive(d) ==
    IF d.state = "Exhausted" THEN Append(failedBatches, d.batch) ELSE failedBatches

\* a retry that sends the batch without its first event
ReattemptTail(d) ==
    [d EXCEPT !.state = "Attempting", !.retryCount = @ + 1, !.attempts = @ + 1,
              !.delay = 0, !.batch = Tail(@)]

\* the backoff timeout fired: sendBatch(batch, retryCount + 1)
Reattempt(d) ==
    [d EXCEPT !.state = "Attempting", !.retryCount = @ + 1, !.attempts = @ + 1,
              !.delay = 0]

\* ---- the attributes argument and the event record -----------------------------
\* a value of JavaScript: undefined, a string, a number, or a mapping given
\* by its set of <<key, value>> entries
Undefined == [type |-> "undefined"]

Str(text) == [type |-> "string", text |-> text]

Num(text) == [type |-> "number", text |-> text]

Mapping(entries) == [type |-> "mapping", entries |-> entries]

EmptyMapping == Mapping({})

ScreenMapping == Mapping({<<"screen", Str("home")>>})

\* the texts that JSON.parse accepts, and what it returns for each
JsonTexts == {"{\"screen\":\"home\"}", "7"}

JsonParse(text) == IF text = "7" THEN Num("7") ELSE ScreenMapping

\* if (attributes): undefined and the empty string are falsy
Truthy(a) == a # Undefined /\ a # Str("")

\* { raw: attributes }
RawOf(a) == Mapping({<<"raw", a>>})

\* a normalisation that drops a string that JSON.parse rejects
ParsedAttributesDropsMalformed(a) ==
    IF ~Truthy(a) THEN EmptyMapping
    ELSE IF a.type = "string"
         THEN IF a.text \in JsonTexts THEN JsonParse(a.text) ELSE EmptyMapping
         ELSE a

\* let parsedAttributes = {}; if (attributes) { if (typeof attributes ===
\* 'string') { try { JSON.parse } catch { { raw: attributes } } } else
\* { parsedAttributes = attributes } }
ParsedAttributes(a) ==
    IF ~Truthy(a) THEN EmptyMapping
    ELSE IF a.type = "string"
         THEN IF a.text \in JsonTexts THEN JsonParse(a.text) ELSE RawOf(a)
         ELSE a

\* a merge in which the fields of the core replace those of the context
MergeCoreLast(core, context) ==
    [f \in DOMAIN core \cup DOMAIN context |->
        IF f \in DOMAIN core THEN core[f] ELSE context[f]]

\* { ...core, ...context }: a key of the context replaces the core field
Merge(core, context) ==
    [f \in DOMAIN core \cup DOMAIN context |->
        IF f \in DOMAIN context THEN context[f] ELSE core[f]]

\* an event that carries an identifier generated anew after the first event
NewEventOwnSession(attributes) ==
    Merge([timestamp |-> nextId, metricName |-> "Click",
           attributes |-> ParsedAttributes(attributes),
           sessionId |-> IF nextId = 1 THEN sessionId ELSE "regenerated",
           userAgent |-> "unknown"],
          config.context)

\* const event = { ..., attributes: parsedAttributes, ..., sessionId:
\* this.sessionId, ..., ...this.config.context }
NewEvent(attributes) ==
    Merge([timestamp |-> nextId, metricName |-> "Click",
           attributes |-> ParsedAttributes(attributes),
           sessionId |-> sessionId, userAgent |-> "unknown"], config.context)

\* no event was built
NoEvent == [f \in {"none"} |-> "none"]

\* ---- what an operation did ------------------------------------------------
\* op ran: it started a flush (flushed), transmitted the batch sent by the
\* transport via, or ended an attempt of the chain done
DidTrack(op, flushed, via, sent, done, attributes, event) ==
    last' = [op |-> op, flushed |-> flushed, via |-> via, sent |-> sent, done |-> done,
             result |-> "none", attributes |-> attributes, event |-> event]

Did(op, flushed, via, sent, done) ==
    DidTrack(op, flushed, via, sent, done, Undefined, NoEvent)

\* op ran and ended with result: a synchronous transmission of the batch sent
\* that was "delivered" or failed and was "logged", or a call that "raised"
DidWith(op, via, sent, result) ==
    last' = [op |-> op, flushed |-> FALSE, via |-> via, sent |-> sent, done |-> NoSend,
             result |-> result, attributes |-> Undefined, event |-> NoEvent]

\* an operation ran and found nothing to act on
DidNothing == Did("noop", FALSE, "none", <<>>, NoSend)

\* the chain a caller awaits once an attempt ended: none when sendBatch returned
Awaited(d) == IF d.state \in Settled THEN NoSend ELSE d

\* every event of batch was put into one more batch
Take(batch) == [e \in Events |-> IF e \in Range(batch) THEN taken[e] + 1 ELSE taken[e]]

\* ---- state after construction -------------------------------------------
\* context: config.context ?? {}
NoContext == [k \in {} |-> ""]

Configs ==
    [endpoint : {"url"}, enabled : BOOLEAN, batchSize : 1..MaxBatchSize,
     maxRetries : 0..MaxMaxRetries, context : {NoContext}]

\* const timestamp = Date.now(); const random = Math.random()...: one
\* identifier per construction
GeneratedIds ==
    <<"1762214400000-k3x9q2m7b", "1762214460000-p0w4z8c1d",
      "1762214520000-t5r2n6v9h", "1762214580000-a7s3d1f6g">>

\* the identifier of the first instance of the process
SessionIds == {GeneratedIds[1]}

\* an instance that ignores config.enabled
DisabledNever == FALSE

\* if (this.config.enabled) { this.startFlushTimer(); this.setupUnloadHandler() }
\* and if (!this.config.enabled) return
Disabled == ~config.enabled

\* the constructor: it copies the configuration as it is, and arms the timer
\* and adds the listeners of an enabled instance
Constructed ==
    /\ analyticsInstance = "instance"
    /\ replaced = <<>>
    /\ sessionId \in SessionIds
    /\ eventQueue = <<>>
    /\ isFlushingInProgress = FALSE
    /\ failedBatches = <<>>
    /\ flushTimer = ~Disabled
    /\ unloadHandlers = ~Disabled
    /\ flushSend = NoSend
    /\ retryCalls = <<>>
    /\ taken = [e \in Events |-> 0]
    /\ discarded = {}
    /\ duringFlight = {}
    /\ stamped = {}
    /\ nextId = 1
    /\ last = [op |-> "constructor", flushed |-> FALSE, via |-> "none",
               sent |-> <<>>, done |-> NoSend, result |-> "none",
               attributes |-> Undefined, event |-> NoEvent]

Init == config \in Configs /\ Constructed

\* ---- flush --------------------------------------------------------------
\* a guard that forgets the busy flag
FlushGuardIgnoresBusy(q) == ~(Len(q) = 0)

\* if (this.eventQueue.length === 0 || this.isFlushingInProgress) return
FlushGuard(q) == ~(Len(q) = 0 \/ isFlushingInProgress)

\* a snapshot that keeps only the first event of the queue
SnapshotFirstEvent(q) == IF Len(q) = 0 THEN q ELSE <<Head(q)>>

\* const batch = [...this.eventQueue]
Snapshot(q) == q

\* flush() called when the queue holds q, up to its await
FlushStep(q) ==
    IF FlushGuard(q)
    THEN /\ isFlushingInProgress' = TRUE
         /\ eventQueue' = <<>>
         /\ flushSend' = NewSend(Snapshot(q))
         /\ taken' = Take(Snapshot(q))
    ELSE /\ eventQueue' = q
         /\ UNCHANGED <<isFlushingInProgress, flushSend, taken>>

\* flush() called by op when the queue holds q
Flush(op, q) ==
    /\ FlushStep(q)
    /\ IF Len(q) = 0 /\ op # "destroy" THEN DidNothing
       ELSE Did(op, FlushGuard(q), "none", <<>>, NoSend)

ManualFlush ==
    /\ Flush("flush", eventQueue)
    /\ UNCHANGED <<analyticsInstance, replaced, config, sessionId, stamped,
                   failedBatches, flushTimer, unloadHandlers, retryCalls,
                   discarded, duringFlight, nextId>>

\* ---- trackEvent ---------------------------------------------------------
\* a size trigger that fires one event late
SizeTriggerLate(q) == Len(q) > config.batchSize

\* if (this.eventQueue.length >= this.config.batchSize)
SizeTrigger(q) == Len(q) >= config.batchSize

\* the attributes argument of a call: none, the empty string, a string that
\* JSON.parse rejects, a string that holds a JSON object, a string that holds
\* a JSON number, or a mapping
AttributeInputs ==
    {Undefined, Str(""), Str("{bad json"), Str("{\"screen\":\"home\"}"), Str("7"),
     ScreenMapping}

\* a trackEvent that lets the error of JSON.parse reach its caller
PropagatesParseError(attributes) ==
    Truthy(attributes) /\ attributes.type = "string" /\ attributes.text \notin JsonTexts

\* an error of the call that reaches the caller: none, JSON.parse has a
\* try/catch of its own and the body of trackEvent is one try { } catch { log }
Propagates(attributes) == FALSE

\* the call is made with an attributes argument whose error reaches the
\* caller, or with one that is normalised
TrackEvent ==
    /\ nextId <= MaxEvents
    /\ IF Disabled
       THEN /\ DidNothing
            /\ UNCHANGED <<eventQueue, isFlushingInProgress, flushSend, taken,
                           duringFlight, stamped, nextId>>
       ELSE \/ /\ \E attributes \in AttributeInputs : Propagates(attributes)
               /\ DidWith("trackEvent", "none", <<>>, "raised")
               /\ UNCHANGED <<eventQueue, isFlushingInProgress, flushSend, taken,
                              duringFlight, stamped, nextId>>
            \/ \E attributes \in AttributeInputs :
                 LET q == Append(eventQueue, nextId) IN
                 /\ ~Propagates(attributes)
                 /\ nextId' = nextId + 1
                 /\ stamped' = stamped \cup {NewEvent(attributes).sessionId}
                 /\ duringFlight' = IF flushSend.state \in Active
                                    THEN duringFlight \cup {nextId} ELSE duringFlight
                 /\ IF SizeTrigger(q)
                    THEN FlushStep(q)
                    ELSE /\ eventQueue' = q
                         /\ UNCHANGED <<isFlushingInProgress, flushSend, taken>>
                 /\ DidTrack("trackEvent", SizeTrigger(q) /\ FlushGuard(q), "none",
                             <<>>, NoSend, attributes, NewEvent(attributes))
    /\ UNCHANGED <<analyticsInstance, replaced, config, sessionId,
                   failedBatches, flushTimer, unloadHandlers, retryCalls,
                   discarded>>

\* ---- startFlushTimer: the setInterval callback ----------------------------
TimerTick ==
    /\ flushTimer
    /\ IF Len(eventQueue) > 0
       THEN Flush("timer", eventQueue)
       ELSE /\ DidNothing
            /\ UNCHANGED <<eventQueue, isFlushingInProgress, flushSend, taken>>
    /\ UNCHANGED <<analyticsInstance, replaced, config, sessionId, stamped,
                   failedBatches, flushTimer, unloadHandlers, retryCalls,
                   discarded, duringFlight, nextId>>

\* ---- setupUnloadHandler: the three listeners ------------------------------
VisibilityHidden ==
    /\ unloadHandlers
    /\ Flush("visibilitychange", eventQueue)
    /\ UNCHANGED <<analyticsInstance, replaced, config, sessionId, stamped,
                   failedBatches, flushTimer, unloadHandlers, retryCalls,
                   discarded, duringFlight, nextId>>

\* flushSync(): one transmission of the whole queue, by the beacon when
\* navigator.sendBeacon exists and by a blocking XMLHttpRequest otherwise
SyncTransports == {"beacon", "xhr"}

\* the transmission went out ("ok"), or sendBeacon returned false or
\* xhr.send threw ("failed")
SyncOutcomes == {"ok", "failed"}

\* a flushSync without the try/catch around the blocking request
SyncRaisesXhrError(via, outcome) == via = "xhr" /\ outcome = "failed"

\* an error of the transmission that leaves flushSync: none, a refused beacon
\* is logged by console.warn and the blocking request is in try { } catch { log }
SyncRaises(via, outcome) == FALSE

SyncResult(via, outcome) ==
    IF outcome = "ok" THEN "delivered"
    ELSE IF SyncRaises(via, outcome) THEN "raised"
    ELSE "logged"

\* a flushSync that puts the events of a failed transmission back
RequeueOnFailure(q, outcome) == IF outcome = "failed" THEN q ELSE <<>>

\* this.eventQueue = [], before the transmission and whatever becomes of it
QueueAfterSync(q, outcome) == <<>>

\* a flushSync that also sends the batch of the flush() in flight
FlushSyncWithInFlight(op) ==
    /\ IF Len(eventQueue) = 0
       THEN /\ DidNothing
            /\ UNCHANGED <<eventQueue, taken>>
       ELSE \E via \in SyncTransports : \E outcome \in SyncOutcomes :
            /\ eventQueue' = QueueAfterSync(eventQueue, outcome)
            /\ taken' = Take(Snapshot(eventQueue))
            /\ DidWith(op, via, flushSend.batch \o Snapshot(eventQueue),
                       SyncResult(via, outcome))
    /\ UNCHANGED <<analyticsInstance, replaced, config, sessionId, stamped,
                   isFlushingInProgress, failedBatches, flushTimer,
                   unloadHandlers, flushSend, retryCalls, discarded,
                   duringFlight, nextId>>

\* flushSync() called by the listener of op: the transport is the one the
\* browser has, and the transmission goes out or fails
FlushSync(op) ==
    /\ IF Len(eventQueue) = 0
       THEN /\ DidNothing
            /\ UNCHANGED <<eventQueue, taken>>
       ELSE \E via \in SyncTransports : \E outcome \in SyncOutcomes :
            /\ eventQueue' = QueueAfterSync(eventQueue, outcome)
            /\ taken' = Take(Snapshot(eventQueue))
            /\ DidWith(op, via, Snapshot(eventQueue), SyncResult(via, outcome))
    /\ UNCHANGED <<analyticsInstance, replaced, config, sessionId, stamped,
                   isFlushingInProgress, failedBatches, flushTimer,
                   unloadHandlers, flushSend, retryCalls, discarded,
                   duringFlight, nextId>>

\* a pagehide listener that calls flush()
PageHideAsync ==
    /\ unloadHandlers
    /\ Flush("pagehide", eventQueue)
    /\ UNCHANGED <<analyticsInstance, replaced, config, sessionId, stamped,
                   failedBatches, flushTimer, unloadHandlers, retryCalls,
                   discarded, duringFlight, nextId>>

\* window.addEventListener('pagehide', () => { this.flushSync() })
PageHide == unloadHandlers /\ FlushSync("pagehide")

\* window.addEventListener('beforeunload', () => { this.flushSync() })
BeforeUnload == unloadHandlers /\ FlushSync("beforeunload")

\* ---- flush(): the fetch awaited by its sendBatch chain ends ---------------
\* a busy flag that is reset only after a successful send
BusyAfterResetOnSuccess(d) ==
    IF d.state = "Succeeded" THEN FALSE ELSE isFlushingInProgress

\* finally { this.isFlushingInProgress = false }, once sendBatch has returned
BusyAfter(d) ==
    IF d.state \in Settled THEN FALSE ELSE isFlushingInProgress

FlushFetchDone(outcome) ==
    LET d2 == Complete(flushSend, outcome) IN
    /\ flushSend.state = "Attempting"
    /\ flushSend' = Awaited(d2)
    /\ failedBatches' = Archive(d2)
    /\ isFlushingInProgress' = BusyAfter(d2)
    /\ Did("fetchDone", FALSE, "none", <<>>, d2)
    /\ UNCHANGED <<analyticsInstance, replaced, config, sessionId, stamped,
                   eventQueue, flushTimer, unloadHandlers, retryCalls, taken,
                   discarded, duringFlight, nextId>>

FlushFetchComplete == \E o \in FetchOutcomes : FlushFetchDone(o)

\* ---- flush(): the backoff timeout of its sendBatch chain fires ------------
FlushBackoffDone ==
    /\ flushSend.state = "RetryScheduled"
    /\ flushSend' = Reattempt(flushSend)
    /\ Did("backoffDone", FALSE, "none", <<>>, flushSend')
    /\ UNCHANGED <<analyticsInstance, replaced, config, sessionId, stamped,
                   eventQueue, isFlushingInProgress, failedBatches, flushTimer,
                   unloadHandlers, retryCalls, taken, discarded, duringFlight,
                   nextId>>

\* ---- retryFailedBatches ---------------------------------------------------
\* the calls that take batches are counted: one more for an instance without
\* retries, whose chains are short, so that two calls can overlap
RetryCallsBound ==
    IF config.maxRetries = 0 THEN MaxRetryCalls + 1 ELSE MaxRetryCalls

\* a call that resubmits the archived batches newest first
RetryFailedBatchesNewestFirst ==
    LET reversed == [i \in 1..Len(failedBatches) |->
                        failedBatches[Len(failedBatches) + 1 - i]] IN
    /\ IF failedBatches = <<>>
       THEN /\ DidNothing
            /\ UNCHANGED <<failedBatches, retryCalls>>
       ELSE /\ Len(retryCalls) < RetryCallsBound
            /\ failedBatches' = <<>>
            /\ retryCalls' = Append(retryCalls,
                                    [rest |-> Tail(reversed),
                                     promise |-> "pending",
                                     send |-> NewSend(Head(reversed))])
            /\ Did("retryFailedBatches", FALSE, "none", <<>>, NoSend)
    /\ UNCHANGED <<analyticsInstance, replaced, config, sessionId, stamped,
                   eventQueue, isFlushingInProgress, flushTimer, unloadHandlers,
                   flushSend, taken, discarded, duringFlight, nextId>>

\* a call that resubmits the archived batches and leaves them in the archive
RetryFailedBatchesKeepsArchive ==
    /\ IF failedBatches = <<>>
       THEN /\ DidNothing
            /\ UNCHANGED <<failedBatches, retryCalls>>
       ELSE /\ Len(retryCalls) < RetryCallsBound
            /\ failedBatches' = failedBatches
            /\ retryCalls' = Append(retryCalls,
                                    [rest |-> Tail(failedBatches),
                                     promise |-> "pending",
                                     send |-> NewSend(Head(failedBatches))])
            /\ Did("retryFailedBatches", FALSE, "none", <<>>, NoSend)
    /\ UNCHANGED <<analyticsInstance, replaced, config, sessionId, stamped,
                   eventQueue, isFlushingInProgress, flushTimer, unloadHandlers,
                   flushSend, taken, discarded, duringFlight, nextId>>

\* const batches = [...this.failedBatches]; this.failedBatches = []; for
\* (const batch of batches) await this.sendBatch(batch): up to the first await
RetryFailedBatches ==
    /\ IF failedBatches = <<>>
       THEN /\ DidNothing
            /\ UNCHANGED <<failedBatches, retryCalls>>
       ELSE /\ Len(retryCalls) < RetryCallsBound
            /\ failedBatches' = <<>>
            /\ retryCalls' = Append(retryCalls,
                                    [rest |-> Tail(failedBatches),
                                     promise |-> "pending",
                                     send |-> NewSend(Head(failedBatches))])
            /\ Did("retryFailedBatches", FALSE, "none", <<>>, NoSend)
    /\ UNCHANGED <<analyticsInstance, replaced, config, sessionId, stamped,
                   eventQueue, isFlushingInProgress, flushTimer, unloadHandlers,
                   flushSend, taken, discarded, duringFlight, nextId>>

\* the fetch awaited by call k ends; the for loop goes on to the next batch
RetryFetchDone(k, outcome) ==
    /\ k \in 1..Len(retryCalls)
    /\ retryCalls[k].send.state = "Attempting"
    /\ LET c  == retryCalls[k]
           d2 == Complete(c.send, outcome)
       IN
       /\ failedBatches' = Archive(d2)
       /\ retryCalls' = [retryCalls EXCEPT ![k] =
              IF d2.state \notin Settled THEN [c EXCEPT !.send = d2]
              ELSE IF d2.state # "Threw" /\ c.rest # <<>>
                   THEN [c EXCEPT !.rest = Tail(c.rest), !.send = NewSend(Head(c.rest))]
                   ELSE [c EXCEPT !.send = NoSend,
                                  !.promise = IF d2.state = "Threw" THEN "rejected"
                                              ELSE "resolved"]]
       /\ Did("fetchDone", FALSE, "none", <<>>, d2)
    /\ UNCHANGED <<analyticsInstance, replaced, config, sessionId, stamped,
                   eventQueue, isFlushingInProgress, flushTimer, unloadHandlers,
                   flushSend, taken, discarded, duringFlight, nextId>>

RetryFetchComplete == \E k \in 1..RetryCallsBound : \E o \in FetchOutcomes : RetryFetchDone(k, o)

RetryBackoffDone(k) ==
    /\ k \in 1..Len(retryCalls)
    /\ retryCalls[k].send.state = "RetryScheduled"
    /\ retryCalls' = [retryCalls EXCEPT ![k].send = Reattempt(@)]
    /\ Did("backoffDone", FALSE, "none", <<>>, retryCalls'[k].send)
    /\ UNCHANGED <<analyticsInstance, replaced, config, sessionId, stamped,
                   eventQueue, isFlushingInProgress, failedBatches, flushTimer,
                   unloadHandlers, flushSend, taken, discarded, duringFlight,
                   nextId>>

RetryBackoffComplete == \E k \in 1..RetryCallsBound : RetryBackoffDone(k)

\* ---- clear ----------------------------------------------------------------
\* a clear() that empties the queue and keeps the archive
ClearKeepsArchive ==
    /\ eventQueue' = <<>>
    /\ discarded' = discarded \cup Range(eventQueue)
    /\ IF Len(eventQueue) = 0 /\ Len(failedBatches) = 0 THEN DidNothing
       ELSE Did("clear", FALSE, "none", <<>>, NoSend)
    /\ UNCHANGED <<analyticsInstance, replaced, config, sessionId, stamped,
                   isFlushingInProgress, failedBatches, flushTimer,
                   unloadHandlers, flushSend, retryCalls, taken, duringFlight,
                   nextId>>

\* a clear() that empties the archive and keeps the queue
ClearArchiveOnly ==
    /\ failedBatches' = <<>>
    /\ IF Len(failedBatches) = 0 THEN DidNothing
       ELSE Did("clear", FALSE, "none", <<>>, NoSend)
    /\ UNCHANGED <<analyticsInstance, replaced, config, sessionId, stamped,
                   eventQueue, isFlushingInProgress, flushTimer, unloadHandlers,
                   flushSend, retryCalls, taken, discarded, duringFlight, nextId>>

\* this.eventQueue = []; this.failedBatches = []
Clear ==
    /\ eventQueue' = <<>>
    /\ failedBatches' = <<>>
    /\ discarded' = discarded \cup Range(eventQueue)
    /\ IF Len(eventQueue) = 0 /\ Len(failedBatches) = 0 THEN DidNothing
       ELSE Did("clear", FALSE, "none", <<>>, NoSend)
    /\ UNCHANGED <<analyticsInstance, replaced, config, sessionId, stamped,
                   isFlushingInProgress, flushTimer, unloadHandlers, flushSend,
                   retryCalls, taken, duringFlight, nextId>>

\* ---- destroy --------------------------------------------------------------
\* a teardown that disarms the timer and makes no flush attempt
DestroyWithoutFlush ==
    /\ flushTimer' = FALSE
    /\ Did("destroy", FALSE, "none", <<>>, NoSend)
    /\ UNCHANGED <<analyticsInstance, replaced, config, sessionId, stamped,
                   eventQueue, isFlushingInProgress, failedBatches,
                   unloadHandlers, flushSend, retryCalls, taken, discarded,
                   duringFlight, nextId>>

\* a teardown that leaves the interval armed
DestroyKeepsTimer ==
    /\ flushTimer' = flushTimer
    /\ Flush("destroy", eventQueue)
    /\ UNCHANGED <<analyticsInstance, replaced, config, sessionId, stamped,
                   failedBatches, unloadHandlers, retryCalls, discarded,
                   duringFlight, nextId>>

\* clearInterval(this.flushTimer); this.flushTimer = null; this.flush():
\* the listeners stay, and no pending timeout of a backoff is cancelled
Destroy ==
    /\ flushTimer' = FALSE
    /\ Flush("destroy", eventQueue)
    /\ UNCHANGED <<analyticsInstance, replaced, config, sessionId, stamped,
                   failedBatches, unloadHandlers, retryCalls, discarded,
                   duringFlight, nextId>>

Next ==
    \/ TrackEvent
    \/ ManualFlush
    \/ TimerTick
    \/ VisibilityHidden
    \/ PageHide
    \/ BeforeUnload
    \/ FlushFetchComplete
    \/ FlushBackoffDone
    \/ RetryFailedBatches
    \/ RetryFetchComplete
    \/ RetryBackoffComplete
    \/ Clear
    \/ Destroy

Spec == Init /\ [][Next]_vars

\* ---- scheduling -----------------------------------------------------------
\* a tick of the armed interval timer that finds events and no flush in flight
EffectiveTick == TimerTick /\ FlushGuard(eventQueue)

\* every fetch ends, every backoff timeout fires, and the interval timer keeps
\* ticking while it is armed
Fairness ==
    /\ WF_vars(FlushFetchComplete)
    /\ WF_vars(FlushBackoffDone)
    /\ \A k \in 1..MaxRetryCalls :
          /\ WF_vars(\E o \in FetchOutcomes : RetryFetchDone(k, o))
          /\ WF_vars(RetryBackoffDone(k))
    /\ WF_vars(EffectiveTick)

\* an enabled instance that flushes at every event and retries once
LiveConfigs == {c \in Configs : c.enabled /\ c.batchSize = 1 /\ c.maxRetries = 1}

InitLive == Init /\ config \in LiveConfigs

SpecLive == InitLive /\ [][Next]_vars /\ Fairness

\* an enabled instance with the default maxRetries whose queue never reaches
\* batchSize: only the timer, the lifecycle and the manual triggers flush
TimerConfigs ==
    [endpoint : {"url"}, enabled : {TRUE}, batchSize : {MaxEvents + 1},
     maxRetries : {DefaultMaxRetries}, context : {NoContext}]

InitTimer == config \in TimerConfigs /\ Constructed

SpecTimer == InitTimer /\ [][Next]_vars

\* an instance constructed from a configuration without endpoint
NoEndpointConfigs ==
    [endpoint : {"undefined"}, enabled : {TRUE}, batchSize : {1}, maxRetries : {1},
     context : {NoContext}]

\* the constructor refuses the configuration: never, it stores
\* config.endpoint as it is and tests nothing
Rejected(cfg) == FALSE

InitNoEndpoint == config \in NoEndpointConfigs /\ ~Rejected(config) /\ Constructed

SpecNoEndpoint == InitNoEndpoint /\ [][Next]_vars

\* ---- instances with a context ------------------------------------------------
\* a context with a field of the device, and one with a key of the core
DeviceContext == [k \in {"device"} |-> "tv"]

SessionContext == [k \in {"sessionId"} |-> "from-context"]

CoreKeysContext ==
    [k \in {"timestamp", "metricName", "userAgent"} |-> "from-context"]

ContextConfigs ==
    [endpoint : {"url"}, enabled : {TRUE}, batchSize : {MaxBatchSize},
     maxRetries : {MaxMaxRetries},
     context : {NoContext, DeviceContext, SessionContext, CoreKeysContext}]

InitContext == config \in ContextConfigs /\ Constructed

SpecContext == InitContext /\ [][Next]_vars

\* ---- the module: analyticsInstance, initializeAnalytics and the wrappers ------
\* the configurations given to initializeAnalytics()
ModuleConfigs ==
    [endpoint : {"url"}, enabled : BOOLEAN, batchSize : {1}, maxRetries : {1},
     context : {NoContext}]

\* the fields of the class while analyticsInstance is null: there is none
NoInstanceConfig ==
    [endpoint : {"none"}, enabled : {FALSE}, batchSize : {1}, maxRetries : {0},
     context : {NoContext}]

\* let analyticsInstance: Analytics | null = null
InitModule ==
    /\ analyticsInstance = "null"
    /\ replaced = <<>>
    /\ config \in NoInstanceConfig
    /\ sessionId = "null"
    /\ eventQueue = <<>>
    /\ isFlushingInProgress = FALSE
    /\ failedBatches = <<>>
    /\ flushTimer = FALSE
    /\ unloadHandlers = FALSE
    /\ flushSend = NoSend
    /\ retryCalls = <<>>
    /\ taken = [e \in Events |-> 0]
    /\ discarded = {}
    /\ duringFlight = {}
    /\ stamped = {}
    /\ nextId = 1
    /\ last = [op |-> "load", flushed |-> FALSE, via |-> "none",
               sent |-> <<>>, done |-> NoSend, result |-> "none",
               attributes |-> Undefined, event |-> NoEvent]

Live == analyticsInstance = "instance"

\* an initializeAnalytics() that drops the existing instance as it is
ReplacedUntouched ==
    [sessionId |-> sessionId, flushTimer |-> flushTimer,
     unloadHandlers |-> unloadHandlers, eventQueue |-> eventQueue,
     isFlushingInProgress |-> isFlushingInProgress]

\* analyticsInstance.destroy(): what the existing instance is once it has been
\* destroyed. Its timer is cleared and its flush() took the queue unless a
\* flush was in flight; its listeners stay. Of its chains only the busy flag
\* is kept
ReplacedInstance ==
    [sessionId |-> sessionId, flushTimer |-> FALSE,
     unloadHandlers |-> unloadHandlers,
     eventQueue |-> IF FlushGuard(eventQueue) THEN <<>> ELSE eventQueue,
     isFlushingInProgress |-> isFlushingInProgress \/ FlushGuard(eventQueue)]

\* if (analyticsInstance) analyticsInstance.destroy();
\* analyticsInstance = new Analytics(config)
InitializeAnalytics ==
    \E cfg \in ModuleConfigs :
        /\ Len(replaced) + (IF Live THEN 1 ELSE 0) < MaxInits
        /\ replaced' = IF Live THEN Append(replaced, ReplacedInstance) ELSE replaced
        /\ taken' = IF Live /\ FlushGuard(eventQueue)
                    THEN Take(Snapshot(eventQueue)) ELSE taken
        /\ analyticsInstance' = "instance"
        /\ config' = cfg
        /\ sessionId' = GeneratedIds[Len(replaced') + 1]
        /\ eventQueue' = <<>>
        /\ isFlushingInProgress' = FALSE
        /\ failedBatches' = <<>>
        /\ flushTimer' = cfg.enabled
        /\ unloadHandlers' = cfg.enabled
        /\ flushSend' = NoSend
        /\ retryCalls' = <<>>
        /\ stamped' = {}
        /\ Did("initializeAnalytics", Live /\ FlushGuard(eventQueue), "none", <<>>,
               NoSend)
        /\ UNCHANGED <<discarded, duringFlight, nextId>>

\* wrappers that keep what is tracked before initialization for later
NotInitializedBuffers(op) ==
    /\ ~Live
    /\ DidWith(op, "none", <<>>, "notInitialized")
    /\ eventQueue' = IF op = "trackEvent" /\ nextId <= MaxEvents
                     THEN Append(eventQueue, nextId)
                     ELSE eventQueue
    /\ UNCHANGED <<analyticsInstance, replaced, config, sessionId,
                   isFlushingInProgress, failedBatches, flushTimer,
                   unloadHandlers, flushSend, retryCalls, taken, discarded,
                   duringFlight, stamped, nextId>>

\* a wrapper called while analyticsInstance is null: it logs or returns
NotInitialized(op) ==
    /\ ~Live
    /\ DidWith(op, "none", <<>>, "notInitialized")
    /\ UNCHANGED <<analyticsInstance, replaced, config, sessionId, eventQueue,
                   isFlushingInProgress, failedBatches, flushTimer,
                   unloadHandlers, flushSend, retryCalls, taken, discarded,
                   duringFlight, stamped, nextId>>

\* export function trackEvent(...)
WrapperTrackEvent == IF Live THEN TrackEvent ELSE NotInitialized("trackEvent")

\* export async function flushEvents()
FlushEvents == IF Live THEN ManualFlush ELSE NotInitialized("flushEvents")

\* export function getSessionId(): analyticsInstance?.getSessionId() ?? null
WrapperGetSessionId == IF Live THEN sessionId ELSE "null"

\* export function getQueueSize(): analyticsInstance?.getQueueSize() ?? 0
WrapperGetQueueSize == IF Live THEN Len(eventQueue) ELSE 0

\* the flush() in flight of the replaced instance i ends: its finally block
ReplacedFlushEnds(i) ==
    /\ i \in 1..Len(replaced)
    /\ replaced[i].isFlushingInProgress
    /\ replaced' = [replaced EXCEPT ![i].isFlushingInProgress = FALSE]
    /\ Did("replaced.fetchDone", FALSE, "none", <<>>, NoSend)
    /\ UNCHANGED <<analyticsInstance, config, sessionId, eventQueue,
                   isFlushingInProgress, failedBatches, flushTimer,
                   unloadHandlers, flushSend, retryCalls, taken, discarded,
                   duringFlight, stamped, nextId>>

\* the pagehide or beforeunload listener of the replaced instance i: flushSync()
ReplacedUnload(i) ==
    /\ i \in 1..Len(replaced)
    /\ replaced[i].unloadHandlers
    /\ IF Len(replaced[i].eventQueue) = 0
       THEN /\ DidNothing
            /\ UNCHANGED <<replaced, taken>>
       ELSE \E via \in SyncTransports : \E outcome \in SyncOutcomes :
            /\ replaced' = [replaced EXCEPT ![i].eventQueue = <<>>]
            /\ taken' = Take(replaced[i].eventQueue)
            /\ DidWith("replaced.flushSync", via, replaced[i].eventQueue,
                       SyncResult(via, outcome))
    /\ UNCHANGED <<analyticsInstance, config, sessionId, eventQueue,
                   isFlushingInProgress, failedBatches, flushTimer,
                   unloadHandlers, flushSend, retryCalls, discarded,
                   duringFlight, stamped, nextId>>

\* the visibilitychange listener of the replaced instance i: flush()
ReplacedVisibilityHidden(i) ==
    /\ i \in 1..Len(replaced)
    /\ replaced[i].unloadHandlers
    /\ IF Len(replaced[i].eventQueue) = 0 \/ replaced[i].isFlushingInProgress
       THEN /\ DidNothing
            /\ UNCHANGED <<replaced, taken>>
       ELSE /\ replaced' = [replaced EXCEPT ![i].eventQueue = <<>>,
                                            ![i].isFlushingInProgress = TRUE]
            /\ taken' = Take(replaced[i].eventQueue)
            /\ Did("replaced.flush", TRUE, "none", replaced[i].eventQueue, NoSend)
    /\ UNCHANGED <<analyticsInstance, config, sessionId, eventQueue,
                   isFlushingInProgress, failedBatches, flushTimer,
                   unloadHandlers, flushSend, retryCalls, discarded,
                   duringFlight, stamped, nextId>>

NextModule ==
    \/ InitializeAnalytics
    \/ WrapperTrackEvent
    \/ FlushEvents
    \/ Live /\ TimerTick
    \/ Live /\ VisibilityHidden
    \/ Live /\ PageHide
    \/ Live /\ BeforeUnload
    \/ Live /\ FlushFetchComplete
    \/ Live /\ FlushBackoffDone
    \/ Live /\ RetryFailedBatches
    \/ Live /\ RetryFetchComplete
    \/ Live /\ RetryBackoffComplete
    \/ Live /\ Clear
    \/ Live /\ Destroy
    \/ \E i \in 1..MaxInits : ReplacedFlushEnds(i)
    \/ \E i \in 1..MaxInits : ReplacedUnload(i)
    \/ \E i \in 1..MaxInits : ReplacedVisibilityHidden(i)

SpecModule == InitModule /\ [][NextModule]_vars

\* ---- what the state shows of batches and chains ---------------------------
\* the chain that retryFailedBatches() call k awaits, none before the call
RetrySend(calls, k) == IF k \in 1..Len(calls) THEN calls[k].send ELSE NoSend

\* the sendBatch chains in progress, and the one whose attempt just ended
Chains ==
    {d \in {flushSend, last.done} \cup {retryCalls[k].send : k \in 1..Len(retryCalls)} :
        d.state # "None"}

\* the batches that wait in the archive or in the loop of a retryFailedBatches()
Resubmittable ==
    Range(failedBatches) \cup UNION {Range(retryCalls[k].rest) : k \in 1..Len(retryCalls)}

\* the batches the instance holds outside the queue
HeldBatches == {d.batch : d \in Chains} \cup Resubmittable \cup {last.sent}

Accepted == 1..(nextId - 1)

InQueue(e) == Cardinality({i \in 1..Len(eventQueue) : eventQueue[i] = e})

InDiscarded(e) == IF e \in discarded THEN 1 ELSE 0

\* a step that extracted a batch from the queue (flush or flushSync)
Extraction == taken' # taken

\* a step that is an accepted trackEvent call
Enqueue == nextId' = nextId + 1

\* the step started an attempt (a fetch) in the chain that was d and is e
AttemptStarted(d, e) == e.state = "Attempting" /\ e # d

\* an attempt starts as the retry of a chain in backoff, as the first attempt
\* of a batch taken from the archive, or as the first attempt of a batch of
\* events that this step extracts from the queue
AttemptSource(d, e) ==
    AttemptStarted(d, e) =>
        \/ d.state = "RetryScheduled" /\ e = Reattempt(d)
        \/ e = NewSend(e.batch) /\ e.batch \in Resubmittable
        \/ /\ e = NewSend(e.batch)
           /\ Extraction
           /\ \A x \in Range(e.batch) : taken[x] = 0 /\ taken'[x] = 1

AttemptSources ==
    /\ AttemptSource(flushSend, flushSend')
    /\ \A k \in 1..Len(retryCalls') :
          AttemptSource(RetrySend(retryCalls, k), RetrySend(retryCalls', k))

\* the step started an attempt on batch b
Attempted(b) ==
    \/ AttemptStarted(flushSend, flushSend') /\ flushSend'.batch = b
    \/ \E k \in 1..Len(retryCalls') :
          /\ AttemptStarted(RetrySend(retryCalls, k), RetrySend(retryCalls', k))
          /\ RetrySend(retryCalls', k).batch = b

\* the chain whose attempt just ended put its batch at the end of the archive
JustArchived(d) ==
    /\ d.state = "Exhausted"
    /\ Len(failedBatches) > 0
    /\ failedBatches[Len(failedBatches)] = d.batch

\* C1: every accepted event is in exactly one place: once in the queue, or in
\* exactly one extracted batch, or discarded by clear(); the batches the
\* instance holds consist of events that were extracted exactly once.
C1_ExactlyOnePlace ==
    /\ \A e \in Accepted : InQueue(e) + taken[e] + InDiscarded(e) = 1
    /\ \A e \in Events \ Accepted : InQueue(e) + taken[e] + InDiscarded(e) = 0
    /\ \A b \in HeldBatches : \A e \in Range(b) : taken[e] = 1 /\ InQueue(e) = 0

\* one event is in a batch in flight while clear() discarded another
C1_Witness ==
    /\ discarded # {}
    /\ flushSend.state \in Active
    /\ \E e \in Range(flushSend.batch) : taken[e] = 1

\* C2 as stated: an event enqueued while a flush() is in flight is not in the
\* in-flight batch; it waits in the queue, and the next batch extracted from
\* the queue contains it.
C2_Original ==
    /\ [][(Enqueue /\ flushSend.state \in Active) =>
             (flushSend' = flushSend /\ nextId \notin Range(flushSend.batch))]_vars
    /\ [](\A e \in duringFlight : taken[e] = 0 => InQueue(e) = 1)
    /\ [][Extraction =>
             \A e \in duringFlight : InQueue(e) = 1 => taken'[e] = 1]_vars

\* C2 amended: an event enqueued while a flush() is in flight is not in the
\* in-flight batch, which that enqueue leaves as it is; it waits in the queue
\* unless clear() drops it, and the next batch extracted from the queue
\* contains it when it is still there.
C2_NextBatch ==
    /\ [][(Enqueue /\ flushSend.state \in Active) =>
             (flushSend' = flushSend /\ nextId \notin Range(flushSend.batch))]_vars
    /\ [](\A e \in duringFlight :
            (taken[e] = 0 /\ e \notin discarded) => InQueue(e) = 1)
    /\ [][Extraction =>
             \A e \in duringFlight : InQueue(e) = 1 => taken'[e] = 1]_vars

\* an event enqueued during a flight was extracted by a later flush()
C2_Witness ==
    /\ \E e \in duringFlight : e \in Range(flushSend.batch)
    /\ last.flushed

\* C3: a flush() call while a flush is in flight or the queue is empty changes
\* nothing; a chain in flight is never displaced by another extraction, the
\* busy flag is set exactly while flush() awaits a chain, and the end of an
\* attempt starts no flush for the events that queued up meanwhile.
C3_FlushNoOp ==
    /\ [][((ManualFlush \/ VisibilityHidden)
              /\ (isFlushingInProgress \/ Len(eventQueue) = 0)) =>
             UNCHANGED <<eventQueue, isFlushingInProgress, failedBatches,
                         flushSend, retryCalls, taken>>]_vars
    /\ [][flushSend.state \in Active =>
             (flushSend'.state = "None" \/ flushSend'.batch = flushSend.batch)]_vars
    /\ [][(FlushFetchComplete \/ FlushBackoffDone) =>
             (eventQueue' = eventQueue /\ taken' = taken)]_vars
    /\ [](isFlushingInProgress <=> flushSend.state \in Active)

\* a flush() call was dropped while a flush was in flight and events waited
C3_Witness ==
    /\ last.op = "flush"
    /\ ~last.flushed
    /\ isFlushingInProgress
    /\ Len(eventQueue) > 0

\* C4 as stated: a chain with exactly maxRetries failed attempts (at least one)
\* has archived its batch and attempts nothing more.
C4_Original ==
    \A d \in Chains :
        (d.fails = config.maxRetries /\ d.fails >= 1) => d.state = "Exhausted"

\* C4 amended: a batch whose delivery has failed exactly maxRetries + 1 times
\* (the first attempt and maxRetries retries) is moved to the archive and its
\* chain ends; with fewer failures it is not archived; an archived batch is
\* attempted again only by a retryFailedBatches() call.
C4_ArchivedAfterAllRetries ==
    /\ [](\A d \in Chains :
            /\ d.fails = config.maxRetries + 1 <=> d.state = "Exhausted"
            /\ d.state = "Exhausted" => d.attempts = config.maxRetries + 1)
    /\ []((last.op = "fetchDone" /\ last.done.fails = config.maxRetries + 1) =>
             /\ JustArchived(last.done)
             /\ \A d \in Chains : d.state \in Active => d.batch # last.done.batch)
    /\ [][\A b \in Range(failedBatches) :
             Attempted(b) => (last'.op = "retryFailedBatches" /\ Len(failedBatches') = 0)]_vars

\* a batch was archived after a first attempt and at least one retry
C4_Witness ==
    /\ last.op = "fetchDone"
    /\ config.maxRetries >= 1
    /\ last.done.fails = config.maxRetries + 1
    /\ JustArchived(last.done)

\* C5: a chain that succeeds after maxRetries - 1 failed attempts does not put
\* its batch into the archive; after the success the batch is in no chain and
\* not in the archive, and attempts start only on batches from the queue, from
\* the archive or in backoff, so none is made on it again.
C5_SuccessNeverArchived ==
    /\ [](\A d \in Chains :
            (d.state = "Succeeded" /\ d.fails = config.maxRetries - 1) =>
                /\ d.attempts = config.maxRetries
                /\ d.batch \notin Resubmittable
                /\ \A c \in Chains : c.state \in Active => c.batch # d.batch
                /\ \A e \in Range(d.batch) : InQueue(e) = 0 /\ taken[e] = 1)
    /\ [][(last'.op = "fetchDone" /\ last'.done.state = "Succeeded") =>
             failedBatches' = failedBatches]_vars
    /\ [][AttemptSources]_vars

\* a batch succeeded at its last retry but one, after at least one failure
C5_Witness ==
    /\ last.op = "fetchDone"
    /\ last.done.state = "Succeeded"
    /\ last.done.fails = config.maxRetries - 1
    /\ last.done.fails >= 1

\* C6: a batch is attempted at most maxRetries + 1 times; the archive grows
\* exactly in the step in which attempt maxRetries + 1 of a batch fails, by
\* that batch; with batchSize 2 and maxRetries 1, after two trackEvent calls
\* and two failed attempts the archive is the one batch <<1, 2>>.
C6_AttemptsAndArchive ==
    /\ [](\A d \in Chains : d.attempts <= config.maxRetries + 1)
    /\ [][Len(failedBatches') > Len(failedBatches) <=>
             (last'.op = "fetchDone" /\ last'.done.fails = config.maxRetries + 1)]_vars
    /\ [][Len(failedBatches') > Len(failedBatches) =>
             (/\ failedBatches' = Append(failedBatches, last'.done.batch)
              /\ last'.done.attempts = config.maxRetries + 1)]_vars
    /\ []((/\ config.batchSize = 2
            /\ config.maxRetries = 1
            /\ nextId = 3
            /\ last.op = "fetchDone"
            /\ last.done.batch = <<1, 2>>
            /\ last.done.fails = 2) => failedBatches = << <<1, 2>> >>)

\* the two-event batch was archived after its two failed attempts
C6_Witness ==
    /\ config.batchSize = 2
    /\ config.maxRetries = 1
    /\ nextId = 3
    /\ last.op = "fetchDone"
    /\ last.done.batch = <<1, 2>>
    /\ last.done.fails = 2
    /\ failedBatches = << <<1, 2>> >>

\* a flush trigger other than the size trigger runs flush()
FlushTrigger == ManualFlush \/ TimerTick \/ VisibilityHidden

InBackoff == \E d \in Chains : d.state = "RetryScheduled"

\* C7 as stated: while a batch waits in its backoff delay, trackEvent enqueues,
\* and a flush trigger that finds events in the queue extracts them into a
\* batch of their own and starts its send.
C7_IndependentFlush ==
    /\ [][(InBackoff /\ Enqueue) => nextId \in Range(eventQueue') \/ last'.flushed]_vars
    /\ [][(InBackoff /\ Len(eventQueue) > 0 /\ FlushTrigger) =>
             (/\ Len(eventQueue') = 0
              /\ last'.flushed
              /\ flushSend' = NewSend(eventQueue))]_vars

\* the states of a sendBatch chain follow Pending -> Attempting ->
\* {Succeeded | RetryScheduled -> Attempting | Exhausted}; when it has
\* succeeded or is exhausted its caller goes on
ChainStep(d, e) ==
    \/ e = d
    \/ d.state = "None" /\ e = NewSend(e.batch)
    \/ /\ d.state = "Attempting"
       /\ e = [d EXCEPT !.state = "RetryScheduled", !.fails = @ + 1,
                        !.delay = BackoffDelay(d.retryCount)]
    \/ /\ d.state = "Attempting"
       /\ last'.done.batch = d.batch
       /\ last'.done.state \in {"Succeeded", "Exhausted"}
       /\ e = NoSend \/ e = NewSend(e.batch)
    \/ d.state = "RetryScheduled" /\ e = Reattempt(d)

\* the promise of the k-th retryFailedBatches() call that took batches
PromiseIs(k, p) == IF k \in 1..Len(retryCalls) THEN retryCalls[k].promise = p ELSE FALSE

\* C8: every chain follows the state machine and, when fetches end and backoff
\* timeouts fire, reaches Succeeded or Exhausted; the promise of its flush()
\* or retryFailedBatches() call then resolves, no promise ever rejects, and an
\* exhausted batch is at the end of the archive when its chain ends.
C8_ChainSettles ==
    /\ [][/\ ChainStep(flushSend, flushSend')
           /\ \A k \in 1..Len(retryCalls') :
                 ChainStep(RetrySend(retryCalls, k), RetrySend(retryCalls', k))]_vars
    /\ [](\A d \in Chains : d.state # "Threw")
    /\ [](\A k \in 1..Len(retryCalls) :
            /\ retryCalls[k].promise \in {"pending", "resolved"}
            /\ retryCalls[k].promise = "pending" <=> retryCalls[k].send.state \in Active)
    /\ []((last.op = "fetchDone" /\ last.done.state = "Exhausted")
             => JustArchived(last.done))
    /\ (flushSend.state \in Active ~> flushSend.state = "None")
    /\ \A k \in 1..MaxRetryCalls :
          PromiseIs(k, "pending") ~> PromiseIs(k, "resolved")

\* a flush() chain ended in the archive after a retry, its promise resolved,
\* and so did a retryFailedBatches() call
C8_Witness ==
    /\ last.op = "fetchDone"
    /\ last.done.state = "Exhausted"
    /\ last.done.attempts >= 2
    /\ flushSend.state = "None"
    /\ ~isFlushingInProgress
    /\ \E k \in 1..Len(retryCalls) : retryCalls[k].promise = "resolved"

\* the events enqueued while a flush() was in flight and not yet in a batch
Waiting == {e \in duringFlight : taken[e] = 0}

\* C9 as stated: an event enqueued while a flush() was in flight is extracted
\* into a batch in the end, unless the timer is disarmed.
C9_Original ==
    (Waiting # {}) ~> (Waiting = {} \/ ~flushTimer)

\* C9 amended: an event enqueued while a flush() was in flight is extracted
\* into a batch in the end, unless clear() drops it from the queue or the
\* timer is disarmed.
C9_EventuallyExtracted ==
    (Waiting \ discarded # {}) ~> (Waiting \ discarded = {} \/ ~flushTimer)

\* the timer extracted an event that was enqueued during a flight
C9_Witness ==
    /\ last.op = "timer"
    /\ last.flushed
    /\ flushTimer
    /\ \E e \in duringFlight : e \in Range(flushSend.batch)

\* an accepted trackEvent call brings the queue length to batchSize
ReachesBatchSize == Enqueue /\ Len(eventQueue) + 1 = config.batchSize

\* the call extracted the queue with the new event and started its send
FlushedInCall ==
    /\ Len(eventQueue') = 0
    /\ flushSend' = NewSend(Append(eventQueue, nextId))
    /\ isFlushingInProgress'
    /\ last'.flushed

\* C10 as stated: a trackEvent call that brings the queue length to batchSize
\* extracts the queue into a batch and starts its send within the call.
C10_Original ==
    [][ReachesBatchSize => FlushedInCall]_vars

\* C10 amended: a trackEvent call that brings the queue length to batchSize
\* extracts the queue into a batch and starts its send within the call when
\* no flush is in flight; when one is in flight the call only enqueues: the
\* event stays in the queue and the in-flight batch is left alone.
C10_SizeTrigger ==
    [][ReachesBatchSize =>
         IF ~isFlushingInProgress THEN FlushedInCall
         ELSE /\ eventQueue' = Append(eventQueue, nextId)
              /\ UNCHANGED <<flushSend, isFlushingInProgress, taken>>]_vars

\* a trackEvent call filled the queue to batchSize > 1 and flushed it
C10_Witness ==
    /\ last.op = "trackEvent"
    /\ last.flushed
    /\ config.batchSize > 1
    /\ Len(flushSend.batch) = config.batchSize
    /\ flushSend.state = "Attempting"
    /\ Len(eventQueue) = 0

\* the queue holds every event accepted so far: none was extracted or dropped
OnlyEnqueued == eventQueue = [i \in 1..(nextId - 1) |-> i]

InEnqueueOrder(b) == \A i, j \in 1..Len(b) : i < j => b[i] < b[j]

\* the chain that was d goes on as e: its fetch failed and it waits, or its
\* backoff ended and it sends again
ChainGoesOn(d, e) ==
    \/ d.state = "Attempting" /\ e.state = "RetryScheduled"
    \/ d.state = "RetryScheduled" /\ e.state = "Attempting"

\* the fetch of the chain that was d ended in this step
FetchEnded(d, e) == d.state = "Attempting" /\ e # d

\* C12: a batch is the content of the queue at its extraction, in enqueue
\* order, and it never changes: a chain carries the same sequence of events
\* from its first attempt through every backoff and retry to its end, and the
\* archive entry of an exhausted chain is that same sequence.
C12_BatchUnchanged ==
    /\ [](/\ InEnqueueOrder(eventQueue)
          /\ \A b \in HeldBatches : InEnqueueOrder(b))
    /\ [][AttemptStarted(flushSend, flushSend') /\ flushSend.state = "None" =>
             flushSend'.batch = IF Enqueue THEN Append(eventQueue, nextId)
                                ELSE eventQueue]_vars
    /\ [][last'.via \in SyncTransports => last'.sent = eventQueue]_vars
    /\ [][/\ ChainGoesOn(flushSend, flushSend') =>
                flushSend'.batch = flushSend.batch
           /\ \A k \in 1..Len(retryCalls) :
                ChainGoesOn(retryCalls[k].send, retryCalls'[k].send) =>
                    retryCalls'[k].send.batch = retryCalls[k].send.batch]_vars
    /\ [][/\ FetchEnded(flushSend, flushSend') =>
                last'.done.batch = flushSend.batch
           /\ \A k \in 1..Len(retryCalls) :
                FetchEnded(retryCalls[k].send, retryCalls'[k].send) =>
                    last'.done.batch = retryCalls[k].send.batch]_vars
    /\ [][failedBatches' \in {failedBatches, <<>>,
                              Append(failedBatches, last'.done.batch)}]_vars

\* the batch of two events was archived as it was extracted, after its retry
C12_Witness ==
    /\ last.op = "fetchDone"
    /\ last.done.state = "Exhausted"
    /\ last.done.attempts = 2
    /\ last.done.retryCount = 1
    /\ last.done.batch = <<1, 2>>
    /\ failedBatches = << <<1, 2>> >>

\* the step retried the chain that was d and is e
Retried(d, e) == e.attempts = d.attempts + 1 /\ d.attempts >= 1

\* C13: a chain whose failed attempt number n (counted from 0) is followed by a
\* retry waits 2^n * 1000 ms before it, for n from 0 to maxRetries - 1: 1000,
\* 2000 and 4000 ms with the default maxRetries 3; every retry follows such a
\* wait, and after the last failed attempt no delay is scheduled.
C13_BackoffDelays ==
    /\ [](\A d \in Chains :
            /\ d.state = "RetryScheduled" =>
                  /\ d.fails - 1 \in 0..(config.maxRetries - 1)
                  /\ d.delay = (2 ^ (d.fails - 1)) * 1000
            /\ d.state # "RetryScheduled" => d.delay = 0
            /\ d.fails = config.maxRetries + 1 => d.state = "Exhausted")
    /\ [](config.maxRetries = DefaultMaxRetries =>
            \A d \in Chains :
                d.state = "RetryScheduled" =>
                    \/ d.fails = 1 /\ d.delay = 1000
                    \/ d.fails = 2 /\ d.delay = 2000
                    \/ d.fails = 3 /\ d.delay = 4000)
    /\ [][/\ Retried(flushSend, flushSend') =>
                /\ flushSend.state = "RetryScheduled"
                /\ flushSend.delay = (2 ^ (flushSend.attempts - 1)) * 1000
           /\ \A k \in 1..Len(retryCalls) :
                Retried(retryCalls[k].send, retryCalls'[k].send) =>
                    /\ retryCalls[k].send.state = "RetryScheduled"
                    /\ retryCalls[k].send.delay =
                           (2 ^ (retryCalls[k].send.attempts - 1)) * 1000]_vars

\* the third attempt of a batch failed and its retry waits 4000 ms
C13_Witness ==
    /\ last.op = "fetchDone"
    /\ last.done.state = "RetryScheduled"
    /\ last.done.fails = 3
    /\ last.done.delay = 4000
    /\ flushSend = last.done

\* C14: a pagehide or beforeunload signal runs flushSync and nothing of the
\* asynchronous path: it transmits the queue by the beacon or the blocking
\* request and leaves the busy flag, the chain of flush() and the archive as
\* they are; a visibilitychange to hidden calls flush(), which starts a chain
\* for the queue when it may, and transmits nothing synchronously.
C14_SignalPaths ==
    /\ [][(PageHide \/ BeforeUnload) =>
             (/\ UNCHANGED <<isFlushingInProgress, flushSend, retryCalls, failedBatches>>
              /\ ~last'.flushed
              /\ Len(eventQueue) > 0 =>
                    /\ last'.op \in {"pagehide", "beforeunload"}
                    /\ last'.via \in SyncTransports
                    /\ last'.sent = eventQueue
                    /\ eventQueue' = <<>>)]_vars
    /\ [][last'.op \in {"pagehide", "beforeunload"} =>
             (/\ last'.via \in SyncTransports
              /\ UNCHANGED <<isFlushingInProgress, flushSend, retryCalls>>)]_vars
    /\ [][VisibilityHidden =>
             (/\ last'.via = "none"
              /\ last'.sent = <<>>
              /\ FlushGuard(eventQueue) =>
                    /\ last'.op = "visibilitychange"
                    /\ last'.flushed
                    /\ isFlushingInProgress'
                    /\ flushSend'.state = "Attempting"
                    /\ flushSend'.batch = eventQueue)]_vars
    /\ [][last'.op = "visibilitychange" =>
             (last'.via = "none" /\ last'.sent = <<>>)]_vars

\* a beforeunload signal transmitted the second event synchronously while the
\* batch of the first was in flight
C14_Witness ==
    /\ last.op = "beforeunload"
    /\ last.sent = <<2>>
    /\ last.via \in SyncTransports
    /\ flushSend.state \in Active
    /\ flushSend.batch = <<1>>
    /\ isFlushingInProgress

\* C15: a flushSync that finds events makes one transmission, by one of the
\* two transports, of one batch that is the whole queue; whether it is
\* delivered or fails and is logged, the queue is empty afterwards, the events
\* are in no chain and not in the archive, the archive and the asynchronous
\* path are untouched, and the events never come back into the queue or into
\* an attempt.
C15_SyncOnce ==
    /\ [][((PageHide \/ BeforeUnload) /\ Len(eventQueue) > 0) =>
             (/\ last'.via \in SyncTransports
              /\ last'.result \in {"delivered", "logged"}
              /\ last'.sent = eventQueue
              /\ eventQueue' = <<>>
              /\ \A e \in Events :
                    taken'[e] = IF e \in Range(eventQueue) THEN 1 ELSE taken[e]
              /\ UNCHANGED <<failedBatches, flushSend, retryCalls,
                             isFlushingInProgress>>)]_vars
    /\ [](last.via \in SyncTransports =>
            /\ Len(last.sent) > 0
            /\ eventQueue = <<>>
            /\ last.sent \notin Resubmittable
            /\ \A d \in Chains : d.batch # last.sent
            /\ \A e \in Range(last.sent) : taken[e] = 1)
    /\ [](\A e \in Events : taken[e] >= 1 => InQueue(e) = 0)
    /\ [][AttemptSources]_vars

\* the blocking request for both events failed and was logged: the queue is
\* empty and nothing is archived or in flight
C15_Witness ==
    /\ last.via = "xhr"
    /\ last.result = "logged"
    /\ last.sent = <<1, 2>>
    /\ eventQueue = <<>>
    /\ failedBatches = <<>>
    /\ flushSend.state = "None"

\* C16: on a page unload, pagehide followed by beforeunload, with events in
\* the queue and no network, the first signal transmits the queue once, the
\* failure is logged and no error leaves the listener; the second signal finds
\* the queue empty: it transmits nothing and changes nothing.
C16_UnloadOnce ==
    /\ [](last.op \in {"pagehide", "beforeunload"} =>
            /\ last.result \in {"delivered", "logged"}
            /\ eventQueue = <<>>
            /\ \A e \in Range(last.sent) : taken[e] = 1)
    /\ [][(PageHide /\ Len(eventQueue) > 0) =>
             (/\ last'.op = "pagehide"
              /\ last'.sent = eventQueue
              /\ last'.result # "raised")]_vars
    /\ [][(last.op = "pagehide" /\ BeforeUnload) =>
             (/\ last'.op = "noop"
              /\ last'.via = "none"
              /\ last'.sent = <<>>
              /\ UNCHANGED <<eventQueue, taken, failedBatches, flushSend,
                             retryCalls, isFlushingInProgress>>)]_vars

\* pagehide found both events and no network: the beacon was refused and
\* logged, and the beforeunload listener is still to run
C16_Witness ==
    /\ last.op = "pagehide"
    /\ last.via = "beacon"
    /\ last.result = "logged"
    /\ last.sent = <<1, 2>>
    /\ unloadHandlers
    /\ eventQueue = <<>>

\* the batches that retryFailedBatches() call k has still to resubmit
Rest(k) == IF k \in 1..Len(retryCalls) THEN retryCalls[k].rest ELSE <<>>

\* the first attempt of a sendBatch(batch) call with no retry used
FirstAttemptOf(d, batch) ==
    /\ d.batch = batch
    /\ d.state = "Attempting"
    /\ d.retryCount = 0
    /\ d.attempts = 1
    /\ d.fails = 0

\* C17: a retryFailedBatches() call empties the archive and resubmits the
\* batches it held, one after the other in their order, each by a sendBatch
\* with retry count 0; its promise resolves when all were resubmitted; a batch
\* enters the archive only as the batch of a chain that exhausted maxRetries + 1
\* attempts of its own, and a chain that succeeds leaves the archive as it is,
\* without its batch.
C17_RetryResubmitsAll ==
    /\ [][(RetryFailedBatches /\ Len(failedBatches) > 0) =>
             (/\ failedBatches' = <<>>
              /\ Len(retryCalls') = Len(retryCalls) + 1
              /\ FirstAttemptOf(retryCalls'[Len(retryCalls')].send, Head(failedBatches))
              /\ retryCalls'[Len(retryCalls')].rest = Tail(failedBatches))]_vars
    /\ [][\A k \in 1..Len(retryCalls) :
             retryCalls'[k].rest # retryCalls[k].rest =>
                 /\ retryCalls'[k].rest = Tail(retryCalls[k].rest)
                 /\ FirstAttemptOf(retryCalls'[k].send, Head(retryCalls[k].rest))
                 /\ last'.done.batch = retryCalls[k].send.batch
                 /\ last'.done.state \in {"Succeeded", "Exhausted"}]_vars
    /\ [](\A k \in 1..Len(retryCalls) :
            retryCalls[k].promise = "resolved" =>
                retryCalls[k].rest = <<>> /\ retryCalls[k].send = NoSend)
    /\ [][Len(failedBatches') > Len(failedBatches) =>
             (/\ failedBatches' = Append(failedBatches, last'.done.batch)
              /\ last'.done.state = "Exhausted"
              /\ last'.done.attempts = config.maxRetries + 1
              /\ last'.done.fails = config.maxRetries + 1)]_vars
    /\ [][(last'.op = "fetchDone" /\ last'.done.state = "Succeeded") =>
             (/\ failedBatches' = failedBatches
              /\ last'.done.batch \notin Range(failedBatches'))]_vars
    /\ \A k \in 1..MaxRetryCalls : (Len(Rest(k)) > 0) ~> (Len(Rest(k)) = 0)

\* a call took both archived batches: the first exhausted its retries again
\* and is back in the archive, the second is being resubmitted
C17_Witness ==
    /\ Len(retryCalls) = 1
    /\ retryCalls[1].promise = "pending"
    /\ retryCalls[1].rest = <<>>
    /\ FirstAttemptOf(retryCalls[1].send, <<2>>)
    /\ failedBatches = << <<1>> >>

\* C18: a trackEvent call can be made in every state and with every
\* attributes argument; it raises nothing, enqueues its event and returns at
\* once: when it starts a flush the fetch of the new batch is still pending
\* when it returns, and it waits for no chain in flight or in backoff, which
\* it leaves as they are.
C18_TrackReturns ==
    /\ [](nextId <= MaxEvents => ENABLED TrackEvent)
    /\ [](last.op = "trackEvent" => last.result # "raised")
    /\ [][TrackEvent => last'.result # "raised"]_vars
    /\ [][(TrackEvent /\ ~Disabled) =>
             (/\ Enqueue
              /\ last'.op = "trackEvent"
              /\ nextId \in Range(eventQueue') \cup Range(flushSend'.batch)
              /\ last'.flushed =>
                    /\ flushSend.state = "None"
                    /\ flushSend'.state = "Attempting"
                    /\ flushSend'.attempts = 1
                    /\ flushSend'.fails = 0
              /\ flushSend.state \in Active => flushSend' = flushSend
              /\ UNCHANGED <<retryCalls, failedBatches>>)]_vars

\* a trackEvent call started a size-triggered flush and returned while its
\* fetch was pending and a resubmitted batch waited in its backoff delay
C18_Witness ==
    /\ last.op = "trackEvent"
    /\ last.flushed
    /\ last.result = "none"
    /\ flushSend.state = "Attempting"
    /\ \E k \in 1..Len(retryCalls) : retryCalls[k].send.state = "RetryScheduled"

\* C19: on an instance constructed with enabled = false no timer is armed and
\* no listener is added, and every operation is a no-op: the queue and the
\* archive stay empty, no event is accepted, and nothing is ever extracted,
\* transmitted or put in flight.
C19_DisabledNoOp ==
    /\ [](~config.enabled =>
            /\ eventQueue = <<>>
            /\ failedBatches = <<>>
            /\ ~flushTimer
            /\ ~unloadHandlers
            /\ ~isFlushingInProgress
            /\ flushSend = NoSend
            /\ retryCalls = <<>>
            /\ nextId = 1
            /\ \A e \in Events : taken[e] = 0
            /\ ~last.flushed
            /\ last.via = "none"
            /\ last.sent = <<>>
            /\ last.done = NoSend)
    /\ [][~config.enabled =>
             UNCHANGED <<analyticsInstance, replaced, config, sessionId,
                         stamped, eventQueue, isFlushingInProgress,
                         failedBatches, flushTimer, unloadHandlers, flushSend,
                         retryCalls, taken, discarded, duringFlight, nextId>>]_vars
    /\ [][(~config.enabled /\ TrackEvent) => last'.op = "noop"]_vars

\* operations ran on a disabled instance and found nothing to act on
C19_Witness ==
    /\ ~config.enabled
    /\ last.op = "noop"
    /\ eventQueue = <<>>
    /\ ~flushTimer

\* C20: no instance without an endpoint exists, so with a configuration
\* without endpoint no timer is armed, no event is ever accepted and no
\* transmission is ever attempted.
C20_NoInstanceWithoutEndpoint ==
    config.endpoint = "undefined" =>
        /\ ~flushTimer
        /\ nextId = 1
        /\ eventQueue = <<>>
        /\ flushSend = NoSend
        /\ last.sent = <<>>
        /\ \A e \in Events : taken[e] = 0

\* the instance was torn down: only destroy() disarms the timer of an
\* enabled instance
Destroyed == config.enabled /\ ~flushTimer

\* C21 as stated: a destroy() call that finds events in the queue extracts
\* them into a final batch and starts its first delivery attempt, whatever
\* the state of the instance
C21_Original ==
    [][(Destroy /\ Len(eventQueue) > 0) =>
           /\ eventQueue' = <<>>
           /\ FirstAttemptOf(flushSend', eventQueue)
           /\ \A e \in Range(eventQueue) : taken'[e] = 1]_vars

\* C21: a destroy() call that finds events in the queue while no flush is in
\* flight disarms the timer, extracts the whole queue into a final batch and
\* starts its first delivery attempt within the call; while a flush is in
\* flight the call only disarms the timer: its flush() returns at the busy
\* flag and the events stay in the queue
C21_FinalFlush ==
    [][Destroy =>
           /\ ~flushTimer'
           /\ last'.op = "destroy"
           /\ IF Len(eventQueue) > 0 /\ ~isFlushingInProgress
              THEN /\ eventQueue' = <<>>
                   /\ FirstAttemptOf(flushSend', eventQueue)
                   /\ isFlushingInProgress'
                   /\ \A e \in Range(eventQueue) : taken[e] = 0 /\ taken'[e] = 1
                   /\ last'.flushed
              ELSE /\ UNCHANGED <<eventQueue, isFlushingInProgress, flushSend,
                                 taken>>
                   /\ ~last'.flushed]_vars

C21_Witness ==
    /\ last.op = "destroy"
    /\ last.flushed
    /\ Destroyed
    /\ eventQueue = <<>>
    /\ FirstAttemptOf(flushSend, flushSend.batch)
    /\ Len(flushSend.batch) > 0

\* C22: destroy() disarms the periodic timer and nothing arms it again: from
\* the return of destroy() on no tick of the interval can run, so no flush is
\* started by the timer, even with events waiting in the queue
C22_TimerDisarmed ==
    /\ [][Destroy => ~flushTimer']_vars
    /\ [][~flushTimer => ~flushTimer' /\ last'.op # "timer"]_vars
    /\ [](~flushTimer => ~ENABLED TimerTick)
    /\ [](last.op = "timer" => flushTimer)

C22_Witness ==
    /\ Destroyed
    /\ last.op = "trackEvent"
    /\ Len(eventQueue) > 0
    /\ ~isFlushingInProgress

\* C23: a batch that waits in a backoff delay when destroy() returns is not
\* re-attempted by the step that follows the teardown
C23_NoRetryAfterDestroy ==
    [][last.op = "destroy" =>
           /\ flushSend.state = "RetryScheduled" =>
                  ~Retried(flushSend, flushSend')
           /\ \A k \in 1..Len(retryCalls) :
                  RetrySend(retryCalls, k).state = "RetryScheduled" =>
                      ~Retried(RetrySend(retryCalls, k),
                               RetrySend(retryCalls', k))]_vars

\* the promise of the flush() call that started the chain d resolves in this
\* step: sendBatch returned and the finally block ran
FlushResolves == flushSend.state \in Active /\ flushSend'.state = "None"

\* C24 as stated: a manual flush() extracts every event that is in the queue
\* when it is called, whatever the state of the instance, and its promise
\* resolves only when they are delivered or archived
C24_Original ==
    /\ [][(ManualFlush /\ Len(eventQueue) > 0) =>
              /\ eventQueue' = <<>>
              /\ flushSend'.batch = eventQueue
              /\ \A e \in Range(eventQueue) : taken'[e] = 1]_vars
    /\ [][FlushResolves =>
              /\ last'.done.batch = flushSend.batch
              /\ last'.done.state \in {"Succeeded", "Exhausted"}]_vars

\* C24: a manual flush() called while no flush is in flight extracts every
\* event of the queue into one batch, and its promise resolves in the step
\* in which that batch is delivered or is put at the end of the archive; a
\* manual flush() called while a flush is in flight changes nothing: its
\* promise resolves at once and the events are still in the queue
C24_ManualFlush ==
    /\ [][ManualFlush =>
              IF Len(eventQueue) > 0 /\ ~isFlushingInProgress
              THEN /\ eventQueue' = <<>>
                   /\ FirstAttemptOf(flushSend', eventQueue)
                   /\ isFlushingInProgress'
                   /\ \A e \in Range(eventQueue) : taken[e] = 0 /\ taken'[e] = 1
              ELSE UNCHANGED <<eventQueue, isFlushingInProgress, flushSend,
                               taken, failedBatches>>]_vars
    /\ [](flushSend.state \in Active =>
              \A e \in Range(flushSend.batch) : InQueue(e) = 0)
    /\ [][FlushResolves =>
              /\ last'.done.batch = flushSend.batch
              /\ \/ /\ last'.done.state = "Succeeded"
                    /\ failedBatches' = failedBatches
                 \/ /\ last'.done.state = "Exhausted"
                    /\ failedBatches' = Append(failedBatches, flushSend.batch)]_vars

C24_Witness ==
    /\ last.op = "flush"
    /\ last.flushed
    /\ eventQueue = <<>>
    /\ isFlushingInProgress
    /\ FirstAttemptOf(flushSend, flushSend.batch)
    /\ Len(flushSend.batch) > 0
    /\ \A e \in Range(flushSend.batch) : taken[e] = 1

\* getSessionId(): return this.sessionId
GetSessionId == sessionId

\* C25: the value that getSessionId() returns never changes during the life
\* of the instance, and all the events that the instance builds carry one
\* and the same sessionId value
C25_SameSession ==
    /\ [][GetSessionId' = GetSessionId]_vars
    /\ [](Cardinality(stamped) <= 1)
    /\ [][Enqueue => last'.event.sessionId \in stamped']_vars
    /\ [](nextId > 1 => stamped # {})

C25_Witness ==
    /\ nextId > 2
    /\ last.op = "trackEvent"
    /\ stamped = {GetSessionId}
    /\ last.event.sessionId = GetSessionId

\* getFailedBatches(): return this.failedBatches
GetFailedBatches == failedBatches

\* C26: the archive lists the failed batches oldest first: it changes only
\* by being emptied or by the batch of a chain that has just exhausted its
\* attempts being put after all the batches it holds, and getFailedBatches()
\* returns it in that order
C26_OldestFirst ==
    /\ [][failedBatches' # failedBatches =>
              \/ failedBatches' = <<>>
              \/ /\ last'.done.state = "Exhausted"
                 /\ Len(failedBatches') = Len(failedBatches) + 1
                 /\ SubSeq(failedBatches', 1, Len(failedBatches)) = failedBatches
                 /\ failedBatches'[Len(failedBatches')] = last'.done.batch]_vars
    /\ [][last'.done.state = "Exhausted" =>
              GetFailedBatches' = Append(GetFailedBatches, last'.done.batch)]_vars

C26_Witness ==
    /\ GetFailedBatches = << <<2>>, <<1>> >>
    /\ last.done.state = "Exhausted"
    /\ last.done.batch = <<1>>

\* C27: clear() can be called in every state and discards every archived
\* batch: the archive is empty when the call returns, also while chains are
\* in a fetch or in a backoff delay
C27_ClearEmptiesArchive ==
    /\ [](ENABLED Clear)
    /\ [][Clear => GetFailedBatches' = <<>>]_vars
    /\ [](last.op = "clear" => GetFailedBatches = <<>>)

C27_Witness ==
    /\ last.op = "clear"
    /\ GetFailedBatches = <<>>
    /\ discarded = {}
    /\ nextId > 1
    /\ \A e \in Accepted : taken[e] = 1

\* a string that JSON.parse rejects: the empty string is one
Unparsable(a) == a.type = "string" /\ a.text \notin JsonTexts

\* the step is a trackEvent call that returned normally and enqueued exactly
\* one event, the one it built
EnqueuedOne ==
    /\ last'.result = "none"
    /\ nextId' = nextId + 1
    /\ IF last'.flushed
       THEN eventQueue' = <<>> /\ flushSend'.batch = Append(eventQueue, nextId)
       ELSE eventQueue' = Append(eventQueue, nextId)

C29_BusyExactlyInFlight ==
    /\ [](isFlushingInProgress <=> flushSend.state \in {"Attempting", "RetryScheduled"})
    /\ [][(~isFlushingInProgress /\ isFlushingInProgress') =>
              /\ Extraction
              /\ FirstAttemptOf(flushSend', flushSend'.batch)]_vars
    /\ [][(isFlushingInProgress /\ ~isFlushingInProgress') =>
              /\ last'.done.batch = flushSend.batch
              /\ \/ last'.done.state = "Succeeded"
                 \/ /\ last'.done.state = "Exhausted"
                    /\ failedBatches' = Append(failedBatches, flushSend.batch)]_vars
    /\ [][(isFlushingInProgress /\ last'.done.state \in Settled
             /\ last'.done.batch = flushSend.batch /\ flushSend' # flushSend) =>
              ~isFlushingInProgress']_vars

C29_Witness ==
    /\ isFlushingInProgress
    /\ flushSend.state = "RetryScheduled"
    /\ flushSend.fails = 1
    /\ last.op = "fetchDone"
    /\ last.done = flushSend

\* the step is a flush() that extracted the queue into a batch
AsyncExtraction == flushSend.state = "None" /\ flushSend'.state = "Attempting"

Outstanding ==
    (IF flushSend.state \in Active THEN 1 ELSE 0)
    + Cardinality({k \in 1..Len(retryCalls) : retryCalls[k].send.state \in Active})

\* the retryFailedBatches() calls whose promise is pending
PendingCalls == {k \in 1..Len(retryCalls) : retryCalls[k].promise = "pending"}

\* C31 as stated: at most one asynchronous delivery is outstanding at any
\* time, whatever flush(), retryFailedBatches(), the timer and the size
\* trigger do
C31_Original == [](Outstanding <= 1)

\* C31: at most one delivery started by flush() is outstanding at any time:
\* no trigger starts a flush chain or replaces its batch while one is in a
\* fetch or in a backoff delay. A retryFailedBatches() call is not held back
\* by the busy flag: each pending call has exactly one delivery outstanding,
\* beside the one of flush() and those of other pending calls
C31_OneFlushDelivery ==
    /\ [][flushSend.state \in Active =>
              \/ flushSend'.batch = flushSend.batch /\ flushSend'.state \in Active
              \/ flushSend'.state = "None" /\ last'.op = "fetchDone"]_vars
    /\ [](\A k \in 1..Len(retryCalls) :
              k \in PendingCalls <=> retryCalls[k].send.state \in Active)
    /\ [](Outstanding =
              (IF isFlushingInProgress THEN 1 ELSE 0) + Cardinality(PendingCalls))
    /\ [][(RetryFailedBatches /\ Len(failedBatches) > 0) =>
              Outstanding' = Outstanding + 1]_vars

C31_Witness ==
    /\ flushSend.state \in Active
    /\ PendingCalls # {}
    /\ Outstanding >= 2
    /\ last.op \in {"trackEvent", "flush", "timer"}

\* C32 as stated: clear() changes only the archive; the queue, the busy
\* flag, the timer and the batches in flight or in backoff stay as they are
C32_Original ==
    [][Clear => UNCHANGED <<eventQueue, isFlushingInProgress, flushTimer,
                            flushSend, retryCalls>>]_vars

\* C32: clear() empties the archive and the event queue and changes nothing
\* else: the busy flag, the timer, the listeners and every batch in flight or
\* in backoff stay as they are; the events that were in the queue are
\* discarded, no later flush extracts or delivers them
C32_ClearFrame ==
    /\ [][Clear =>
              /\ failedBatches' = <<>>
              /\ eventQueue' = <<>>
              /\ discarded' = discarded \cup Range(eventQueue)
              /\ UNCHANGED <<analyticsInstance, replaced, config, sessionId,
                             isFlushingInProgress, flushTimer, unloadHandlers,
                             flushSend, retryCalls, taken, nextId>>]_vars
    /\ [][discarded' # discarded => last'.op = "clear"]_vars
    /\ [](\A e \in discarded :
              /\ taken[e] = 0
              /\ InQueue(e) = 0
              /\ \A b \in HeldBatches : e \notin Range(b))

C32_Witness ==
    /\ last.op = "clear"
    /\ discarded # {}
    /\ eventQueue = <<>>
    /\ isFlushingInProgress
    /\ flushSend.state = "RetryScheduled"
    /\ flushTimer

\* the number of places that hold a batch with event e outside the queue:
\* entries of the archive, batches that wait in the loop of a
\* retryFailedBatches() call, and chains in a fetch or in a backoff delay
Holders(e) ==
    Cardinality({i \in 1..Len(failedBatches) : e \in Range(failedBatches[i])})
    + Cardinality({p \in (1..Len(retryCalls)) \X (1..MaxEvents) :
                      /\ p[2] <= Len(retryCalls[p[1]].rest)
                      /\ e \in Range(retryCalls[p[1]].rest[p[2]])})
    + Cardinality({k \in 1..Len(retryCalls) :
                      /\ retryCalls[k].send.state \in Active
                      /\ e \in Range(retryCalls[k].send.batch)})
    + (IF flushSend.state \in Active /\ e \in Range(flushSend.batch) THEN 1 ELSE 0)

\* the retryFailedBatches() call k finished in this step
CallFinished(k) ==
    /\ k \in 1..Len(retryCalls)
    /\ retryCalls[k].promise = "pending"
    /\ retryCalls'[k].promise # "pending"

NextBatchStarted(k) ==
    /\ k \in 1..Len(retryCalls)
    /\ retryCalls'[k].rest # retryCalls[k].rest

\* C34: a retryFailedBatches() call resubmits the batches it took one at a
\* time and in archive order: it starts with the oldest, and the first
\* attempt of the next batch starts in the step in which the previous batch
\* succeeded or exhausted its retries, never while that batch is in a fetch
\* or waits in a backoff delay
C34_OneAtATime ==
    /\ [][(RetryFailedBatches /\ Len(failedBatches) > 0) =>
              /\ FirstAttemptOf(retryCalls'[Len(retryCalls')].send, failedBatches[1])
              /\ retryCalls'[Len(retryCalls')].rest =
                     SubSeq(failedBatches, 2, Len(failedBatches))]_vars
    /\ [][\A k \in 1..Len(retryCalls) : NextBatchStarted(k) =>
              /\ retryCalls[k].send.state = "Attempting"
              /\ last'.op = "fetchDone"
              /\ last'.done.batch = retryCalls[k].send.batch
              /\ last'.done.state \in {"Succeeded", "Exhausted"}
              /\ FirstAttemptOf(retryCalls'[k].send, retryCalls[k].rest[1])
              /\ retryCalls'[k].rest =
                     SubSeq(retryCalls[k].rest, 2, Len(retryCalls[k].rest))]_vars
    /\ [][\A k \in 1..Len(retryCalls) :
              (retryCalls[k].send.state \in Active
                   /\ retryCalls'[k].send.state \in Active
                   /\ ~NextBatchStarted(k)) =>
                  retryCalls'[k].send.batch = retryCalls[k].send.batch]_vars
    /\ [](\A k \in 1..Len(retryCalls) :
              retryCalls[k].rest # <<>> => retryCalls[k].send.state \in Active)

C34_Witness ==
    /\ Len(retryCalls) = 1
    /\ last.op = "fetchDone"
    /\ last.done.batch = <<1>>
    /\ last.done.state = "Succeeded"
    /\ FirstAttemptOf(retryCalls[1].send, <<2>>)
    /\ retryCalls[1].rest = <<>>
    /\ failedBatches = <<>>

\* the step is a flushSync() that transmitted a batch
SyncSent == last'.via \in SyncTransports /\ taken' # taken

\* C35: a flushSync() that runs while the batch of a flush() is in a fetch or
\* in a backoff delay sends the queue, which holds only events enqueued after
\* that batch was extracted; no event of the batch in flight is in the
\* synchronous send, and the chain in flight, its retry count, the busy flag,
\* the archive and the retryFailedBatches() calls stay as they are
C35_SyncDuringFlight ==
    [][(SyncSent /\ flushSend.state \in Active) =>
           /\ last'.sent = eventQueue
           /\ eventQueue' = <<>>
           /\ Range(last'.sent) \subseteq duringFlight
           /\ Range(last'.sent) \cap Range(flushSend.batch) = {}
           /\ \A e \in Range(flushSend.batch) : taken'[e] = 1
           /\ flushSend' = flushSend
           /\ isFlushingInProgress /\ isFlushingInProgress'
           /\ UNCHANGED <<retryCalls, failedBatches, flushTimer>>]_vars

C35_Witness ==
    /\ last.via \in SyncTransports
    /\ last.sent = <<2>>
    /\ isFlushingInProgress
    /\ flushSend.state = "RetryScheduled"
    /\ flushSend.batch = <<1>>
    /\ flushSend.retryCount = 0
    /\ eventQueue = <<>>

\* C36 as stated: whatever the context holds, the sessionId field of every
\* event that is enqueued equals the value that getSessionId() returns
C36_Original ==
    [][Enqueue => last'.event.sessionId = GetSessionId]_vars

\* C36: the sessionId field of every event that is enqueued equals the value
\* that getSessionId() returns unless the context has a sessionId key: the
\* event then carries the value of the context, as it does for every key of
\* the context, those of the core included
C36_ContextWins ==
    [][Enqueue =>
           /\ last'.event.sessionId =
                  IF "sessionId" \in DOMAIN config.context
                  THEN config.context["sessionId"] ELSE GetSessionId
           /\ \A f \in DOMAIN config.context : last'.event[f] = config.context[f]
           /\ {"timestamp", "metricName", "attributes", "sessionId", "userAgent"}
                  \subseteq DOMAIN last'.event]_vars

C36_Witness ==
    /\ last.op = "trackEvent"
    /\ config.context = SessionContext
    /\ last.event.sessionId = "from-context"
    /\ GetSessionId # "from-context"
    /\ eventQueue = <<1>>

\* ---- C37 ------------------------------------------------------------------
\* the periodic flush timers armed in the process
ArmedTimers ==
    (IF flushTimer THEN 1 ELSE 0)
    + Cardinality({i \in 1..Len(replaced) : replaced[i].flushTimer})

\* C37: after any sequence of initializeAnalytics() calls at most one periodic
\* flush timer is armed in the process, an armed timer is the one of the
\* instance the latest call returned, and the timer of every replaced
\* instance is disarmed
C37_OneTimer ==
    /\ ArmedTimers <= 1
    /\ flushTimer => Live
    /\ \A i \in 1..Len(replaced) : ~replaced[i].flushTimer

\* an instance that had armed its timer was replaced by one whose timer is armed
C37_Witness ==
    /\ Len(replaced) >= 1
    /\ replaced[1].unloadHandlers
    /\ Live
    /\ flushTimer
    /\ sessionId = GeneratedIds[Len(replaced) + 1]

\* ---- C38 ------------------------------------------------------------------
\* a replaced instance hands events of its queue to a transport in this step
ReplacedSends ==
    \E i \in 1..Len(replaced) :
        /\ Len(replaced[i].eventQueue) > 0
        /\ replaced'[i].eventQueue = <<>>

\* C38: once initializeAnalytics() has replaced an instance, no page-hide,
\* before-unload or visibility-hidden signal makes the replaced instance send,
\* even when it still holds queued events
C38_OnlyNewInstanceReacts == [][~ReplacedSends]_vars

\* ---- C39 ------------------------------------------------------------------
\* the state of the process in which no event was tracked, sent or buffered
NothingHeld ==
    /\ eventQueue = <<>>
    /\ failedBatches = <<>>
    /\ flushSend = NoSend
    /\ retryCalls = <<>>
    /\ taken = [e \in Events |-> 0]
    /\ nextId = 1

\* C39: before the first initializeAnalytics() call the wrappers do nothing and
\* raise nothing: trackEvent enqueues and sends nothing, flushEvents resolves
\* without a send, getQueueSize() is 0 and getSessionId() is null; nothing
\* tracked then is buffered, and the first instance starts with an empty queue
C39_WrappersBeforeInit ==
    /\ [](~Live => /\ WrapperGetQueueSize = 0
                   /\ WrapperGetSessionId = "null"
                   /\ NothingHeld)
    /\ [][~Live /\ last'.op \in {"trackEvent", "flushEvents"}
          => /\ ~Live'
             /\ NothingHeld'
             /\ last'.sent = <<>>
             /\ last'.via = "none"
             /\ ~last'.flushed
             /\ last'.result = "notInitialized"]_vars
    /\ [][~Live /\ Live' => NothingHeld']_vars

\* trackEvent was called through the wrapper before any initializeAnalytics()
C39_Witness ==
    /\ ~Live
    /\ last.op = "trackEvent"
    /\ last.result = "notInitialized"
    /\ WrapperGetQueueSize = 0

TypeOK ==
    /\ config \in Configs
    /\ sessionId \in SessionIds
    /\ \A v \in stamped : v = sessionId
    /\ isFlushingInProgress \in BOOLEAN
    /\ flushTimer \in BOOLEAN
    /\ nextId \in 1..(MaxEvents + 1)
    /\ discarded \subseteq Events
    /\ duringFlight \subseteq Events
====
